---- MODULE Spec2Model ----
(***************************************************************************)
(* Model of scripts/seperateGeoJson.js: one run of shapeToGeojson(options). *)
(*                                                                         *)
(* JavaScript values are records [t, s, n] (type tag, string, number); an  *)
(* object is a function from its own keys, so a missing property is a key  *)
(* outside DOMAIN.  A string built by a template literal is the sequence   *)
(* of its parts.  A coordinate value is a record [unit, axis, of]: metres  *)
(* of the projected system or degrees computed by gk.toWGS from the pair   *)
(* `of`, so that the slot a value sits in and the pair it was computed     *)
(* from can both be read off the value.                                    *)
(*                                                                         *)
(* Input domain: the attribute table has the columns LAGE, Typ and         *)
(* OBJECTID (a dBASE column name has at most 10 characters, so no column   *)
(* is called "designation"); every geometry is a sequence of coordinate    *)
(* pairs; every type definition has a string type and a string designation.*)
(***************************************************************************)
EXTENDS Integers, Sequences, FiniteSets

\* Bounds of the model.
MaxFeatures == 2      \* features of a collection with string type codes
MaxDefs == 2          \* entries of options.typesDefinitions
MaxRawFeatures == 1   \* features of a collection with arbitrary raw attributes

VARIABLES
    pc,         \* position of the run inside shapeToGeojson: "start", "reading",
                \* "classify", "reproject", "saveDesignation", "saveAll"; ended:
                \* "done", "readFailed" and "saveFailed" (returned after
                \* spinner.fail), "rejected" and "saveRejected" (an exception left
                \* the function)
    options,    \* the argument of shapeToGeojson
    shapefile,  \* what shapefile.read yields for the input pair
    geojson,    \* the local variable geojson
    idx,        \* position of the for-of loop in DESIGNATIONS
    spinner,    \* calls received by the ora spinner, in order
    writes,     \* completed fs.writeFile calls, in order
    disk        \* files of the output directory

vars == <<pc, options, shapefile, geojson, idx, spinner, writes, disk>>

----------------------------------------------------------------------------
\* JavaScript values

Undefined == [t |-> "undefined", s |-> "", n |-> 0]
Null == [t |-> "null", s |-> "", n |-> 0]
Str(s) == [t |-> "string", s |-> s, n |-> 0]
Num(n) == [t |-> "number", s |-> "", n |-> n]

\* ToBoolean: undefined, null, "" and 0 are falsy.
Truthy(v) ==
    \/ v.t = "string" /\ v.s # ""
    \/ v.t = "number" /\ v.n # 0

\* a || b
Or(a, b) == IF Truthy(a) THEN a ELSE b

\* obj[key]: undefined for a key the object does not have.
Get(obj, key) == IF key \in DOMAIN obj THEN obj[key] ELSE Undefined

\* obj[key] = value, on an object that may or may not have the key.
Put(obj, key, value) ==
    [k \in DOMAIN obj \cup {key} |-> IF k = key THEN value ELSE obj[k]]

Digits == <<"1", "2", "3", "4", "5", "6", "7", "8", "9">>

\* `${v}` inside a template literal, as a sequence of parts.
Interpolate(v) ==
    CASE v.t = "string" -> <<v.s>>
      [] v.t = "number" -> IF v.n = 0 THEN <<"0">> ELSE <<Digits[v.n]>>
      [] v.t = "null" -> <<"null">>
      [] OTHER -> <<"undefined">>

\* Object.assign(target, source): own keys of source override target.
ObjectAssign(target, source) ==
    [k \in DOMAIN target \cup DOMAIN source |->
        IF k \in DOMAIN source THEN source[k] ELSE target[k]]

RECURSIVE SelectIndices(_, _, _)
\* The indices i of 1..n with keep[i], ascending.
SelectIndices(keep, i, n) ==
    IF i > n THEN <<>>
    ELSE (IF keep[i] THEN <<i>> ELSE <<>>) \o SelectIndices(keep, i + 1, n)

\* Array.prototype.filter with the callback's verdicts in keep.
Filter(arr, keep) ==
    LET ix == SelectIndices(keep, 1, Len(arr))
    IN [j \in 1..Len(ix) |-> arr[ix[j]]]

RECURSIVE Flatten(_)
Flatten(seqs) ==
    IF seqs = <<>> THEN <<>> ELSE Head(seqs) \o Flatten(Tail(seqs))

----------------------------------------------------------------------------
\* Coordinates

Metres(axis, v) == [unit |-> "m", axis |-> axis, of |-> <<v>>]

\* gk.toWGS({x, y}): the geographic position of a Gauss-Krueger pair.
toWGS(p) ==
    [longitude |-> [unit |-> "deg", axis |-> "longitude", of |-> <<p.x.of[1], p.y.of[1]>>],
     latitude |-> [unit |-> "deg", axis |-> "latitude", of |-> <<p.x.of[1], p.y.of[1]>>]]

----------------------------------------------------------------------------
\* The ora spinner: every call and every assignment to spinner.text is recorded.

Call(method, text) == [method |-> method, text |-> text]

----------------------------------------------------------------------------
\* The local constants of shapeToGeojson

\* Variant of opts: the default of typesDefinitions is the table of the
\* module instead of the empty list.
opts_tableAsDefault ==
    ObjectAssign([typesDefinitions |-> <<[type |-> Str("A"), designation |-> Str("X")]>>],
                 options)

\* const {inputFileName, outputFileName, typesDefinitions} = Object.assign({typesDefinitions: []}, options)
opts == ObjectAssign([typesDefinitions |-> <<>>], options)
inputFileName == opts.inputFileName
outputFileName == opts.outputFileName
typesDefinitions == opts.typesDefinitions

\* typesDefinitions.map(t => t.type)
TYPES == [i \in 1..Len(typesDefinitions) |-> typesDefinitions[i].type]

RECURSIVE Unique(_)
\* [...new Set(arr)]: first occurrences, in insertion order.
Unique(arr) ==
    IF arr = <<>> THEN <<>>
    ELSE LET front == Unique(SubSeq(arr, 1, Len(arr) - 1))
             last == arr[Len(arr)]
         IN IF \E i \in 1..Len(front) : front[i] = last THEN front
            ELSE Append(front, last)

\* Variant of DESIGNATIONS: the designations are not passed through a Set.
DESIGNATIONS_all ==
    [i \in 1..Len(typesDefinitions) |-> typesDefinitions[i].designation]

\* [...new Set(typesDefinitions.map(t => t.designation))]
DESIGNATIONS ==
    Unique([i \in 1..Len(typesDefinitions) |-> typesDefinitions[i].designation])

----------------------------------------------------------------------------
\* Inputs

TypeCodes == {"A", "B"}
DesignationLabels == {"X", "Y"}
TypeDefinitions == {[type |-> Str(c), designation |-> Str(d)] :
                        c \in TypeCodes, d \in DesignationLabels}
DefLists == UNION {[1..n -> TypeDefinitions] : n \in 0..MaxDefs}

InputFileNames == {<<"../data/Radverkehr/Radverkehr_Fuerth">>}
OutputFileNames == {<<"./output/Radverkehr_Fuerth">>}

\* options with and without the key typesDefinitions
OptionsWith(defLists) ==
    {[inputFileName |-> i, outputFileName |-> o] :
        i \in InputFileNames, o \in OutputFileNames}
    \cup {[inputFileName |-> i, outputFileName |-> o, typesDefinitions |-> d] :
        i \in InputFileNames, o \in OutputFileNames, d \in defLists}

Origins == {[x |-> 4420000, y |-> 5480000], [x |-> 4430000, y |-> 5490000]}

\* A line of two points near the origin, different for every feature.
Line(o, i) ==
    <<  <<Metres("x", o.x + i), Metres("y", o.y + 2 * i)>>,
        <<Metres("x", o.x + i + 10), Metres("y", o.y + 2 * i + 10)>>  >>

\* A feature as shapefile.read builds it: the attribute row and the geometry.
RawFeature(o, i, row) ==
    [type |-> "Feature",
     properties |-> Put(row, "OBJECTID", Num(i)),
     geometry |-> [type |-> "LineString", coordinates |-> Line(o, i)]]

RawCollection(o, rows) ==
    [type |-> "FeatureCollection",
     features |-> [i \in 1..Len(rows) |-> RawFeature(o, i, rows[i])],
     bbox |-> <<Metres("x", o.x), Metres("y", o.y),
                Metres("x", o.x + 100), Metres("y", o.y + 100)>>]

\* An attribute row; Undefined stands for a column the table does not have.
Row(lage, typ) ==
    [k \in (IF lage = Undefined THEN {} ELSE {"LAGE"})
           \cup (IF typ = Undefined THEN {} ELSE {"Typ"}) |->
        IF k = "LAGE" THEN lage ELSE typ]

\* Attribute rows with a string type code, or none.
CodedRows ==
    {Row(Str("Weg"), typ) : typ \in {Undefined, Str("A"), Str("B"), Str("C")}}

\* Attribute rows with every kind of missing or falsy value.
RawValues == {Undefined, Null, Str(""), Num(0)}
RawRows ==
    {Row(lage, typ) : lage \in RawValues \cup {Str("Weg")},
                      typ \in RawValues \cup {Num(7), Str("A"), Str("C")}}

EmptyCollection == [type |-> "", features |-> <<>>, bbox |-> <<>>]

InitWith(rowSet, maxLen, defLists) ==
    /\ pc = "start"
    /\ options \in OptionsWith(defLists)
    /\ \E o \in Origins : \E n \in 0..maxLen : \E rows \in [1..n -> rowSet] :
          shapefile = RawCollection(o, rows)
    /\ geojson = EmptyCollection
    /\ idx = 1
    /\ spinner = <<>>
    /\ writes = <<>>
    /\ disk = {}

Init ==
    \/ InitWith(CodedRows, MaxFeatures, DefLists)
    \/ InitWith(RawRows, MaxRawFeatures,
                {<<>>, <<[type |-> Str("A"), designation |-> Str("X")]>>,
                 <<[type |-> Str("UNKNOWN"), designation |-> Str("X")]>>})

----------------------------------------------------------------------------
\* _getGeoJson

\* Variant of cleanup: ?? in place of ||, only undefined and null are replaced.
cleanup_nullish(feature) ==
    LET dflt(v) == IF v \in {Undefined, Null} THEN Str("UNKNOWN") ELSE v
        p1 == Put(feature.properties, "LAGE", dflt(Get(feature.properties, "LAGE")))
        p2 == Put(p1, "Typ", dflt(Get(p1, "Typ")))
    IN [feature EXCEPT !.properties = p2]

\* The callback of the cleanup map.
cleanup(feature) ==
    LET p1 == Put(feature.properties, "LAGE",
                  Or(Get(feature.properties, "LAGE"), Str("UNKNOWN")))
        p2 == Put(p1, "Typ", Or(Get(p1, "Typ"), Str("UNKNOWN")))
    IN [feature EXCEPT !.properties = p2]

\* The value _getGeoJson resolves to when shapefile.read resolves to read.
_getGeoJson(read) ==
    [read EXCEPT !.features = [i \in 1..Len(read.features) |-> cleanup(read.features[i])]]

\* Causes shapefile.read can reject with.
ReadErrors == {<<"Error: ENOENT: no such file or directory">>,
               <<"Error: Unexpected end of file">>}

\* `${err}` of the Error _getGeoJson throws.
GetGeoJsonError(cause) == <<"Error: ", "Error parsing shape filea: ">> \o cause

\* Lines 56-69: the spinner starts and announces the read.
Start ==
    /\ pc = "start"
    /\ spinner' = spinner \o
            << Call("start", <<"shapeToGeojson">>),
               Call("text", <<"reading geo-json from \"">> \o inputFileName \o <<"\"">>) >>
    /\ pc' = "reading"
    /\ UNCHANGED <<options, shapefile, geojson, idx, writes, disk>>

\* Lines 70-74: _getGeoJson resolves.
ReadOk ==
    /\ pc = "reading"
    /\ geojson' = _getGeoJson(shapefile)
    /\ pc' = "classify"
    /\ UNCHANGED <<options, shapefile, idx, spinner, writes, disk>>

\* Variant of ReadFail: the report is not followed by return.
ReadFail_noReturn ==
    /\ pc = "reading"
    /\ \E cause \in ReadErrors :
          spinner' = Append(spinner,
              Call("fail", <<"ERROR reading geo-json: ">> \o GetGeoJsonError(cause)))
    /\ pc' = "classify"
    /\ UNCHANGED <<options, shapefile, geojson, idx, writes, disk>>

\* Lines 75-77: _getGeoJson rejects; the run reports and returns.
ReadFail ==
    /\ pc = "reading"
    /\ \E cause \in ReadErrors :
          spinner' = Append(spinner,
              Call("fail", <<"ERROR reading geo-json: ">> \o GetGeoJsonError(cause)))
    /\ pc' = "readFailed"
    /\ UNCHANGED <<options, shapefile, geojson, idx, writes, disk>>

----------------------------------------------------------------------------
\* The classification pass

\* arr.includes(v)
Includes(arr, v) == \E i \in 1..Len(arr) : arr[i] = v

\* Variant of find: the last entry with that type.
find_last(defs, type) ==
    IF \E i \in 1..Len(defs) : defs[i].type = type
    THEN CHOOSE i \in 1..Len(defs) :
            /\ defs[i].type = type
            /\ \A j \in (i + 1)..Len(defs) : defs[j].type # type
    ELSE 0

\* typesDefinitions.find(t => t.type === type): the position of the first
\* entry with that type, 0 when find yields undefined.
find(defs, type) ==
    IF \E i \in 1..Len(defs) : defs[i].type = type
    THEN CHOOSE i \in 1..Len(defs) :
            /\ defs[i].type = type
            /\ \A j \in 1..(i - 1) : defs[j].type # type
    ELSE 0

\* What spinner.fail returns: the Ora instance, an object that is no feature.
OraInstance == [isSpinning |-> FALSE]

\* The callback of the classification map on one feature: `value` is what it
\* returns, `object` the feature object as the callback leaves it (the
\* designation is assigned in place), `calls` what the spinner receives,
\* `threw` whether it throws.  ora has no method `error`, so line 96 throws
\* a TypeError.
classify(feature) ==
    LET type == Get(feature.properties, "Typ")
        quoted == <<"\"">> \o Interpolate(type) \o <<"\"">>
        same == [value |-> feature, object |-> feature, calls |-> <<>>, threw |-> FALSE]
    IN IF Len(TYPES) = 0 THEN same
       ELSE IF Truthy(type) /\ Includes(TYPES, type) THEN
            LET t == find(typesDefinitions, type)
                valid == Call("text", <<"Valid type found: ">> \o quoted)
                designated ==
                    [feature EXCEPT !.properties =
                        Put(@, "designation", typesDefinitions[t].designation)]
            IN IF t # 0
               THEN [same EXCEPT !.value = designated, !.object = designated,
                                 !.calls = <<valid>>]
               ELSE [same EXCEPT !.value = OraInstance,
                        !.calls = <<valid, Call("fail",
                            <<"type defintion for type ">> \o quoted \o <<" not found!">>)>>]
       ELSE IF Truthy(type) THEN
            [same EXCEPT !.calls = <<Call("warn", <<"Unknown type found: ">> \o quoted
                \o <<". Please change/extend the typesDefinition">>)>>]
       ELSE [same EXCEPT !.threw = TRUE]

\* Variant of classifyAll: filter in place of map, features of an unknown
\* type are left out.
classifyAll_dropUnknown(features) ==
    LET r == [i \in 1..Len(features) |-> classify(features[i])]
    IN [features |-> Filter([i \in 1..Len(features) |-> r[i].value],
                            [i \in 1..Len(features) |->
                                Len(TYPES) = 0
                                \/ Includes(TYPES, Get(features[i].properties, "Typ"))]),
        calls |-> Flatten([i \in 1..Len(features) |-> r[i].calls]),
        threw |-> FALSE]

\* geojson.features.map(classify): the array assigned to geojson.features
\* (when no callback throws, the returned values; else the old array, whose
\* objects before the throwing one were already changed in place), the calls
\* of the spinner and whether the map threw.
classifyAll(features) ==
    LET r == [i \in 1..Len(features) |-> classify(features[i])]
        thrown == {i \in 1..Len(features) : r[i].threw}
        stop == IF thrown = {} THEN Len(features) + 1
                ELSE CHOOSE i \in thrown : \A j \in thrown : i <= j
    IN [features |-> [i \in 1..Len(features) |->
                        IF thrown = {} THEN r[i].value
                        ELSE IF i < stop THEN r[i].object ELSE features[i]],
        calls |-> Flatten([i \in 1..(stop - 1) |-> r[i].calls]),
        threw |-> thrown # {}]

\* Lines 79-100.
Classify ==
    /\ pc = "classify"
    /\ LET pass == classifyAll(geojson.features)
       IN /\ geojson' = [geojson EXCEPT !.features = pass.features]
          /\ spinner' = spinner \o pass.calls
          /\ pc' = IF pass.threw THEN "rejected" ELSE "reproject"
    /\ UNCHANGED <<options, shapefile, idx, writes, disk>>

----------------------------------------------------------------------------
\* The reprojection pass

\* The callback of the inner map: one coordinate pair.
reprojectPair(coordinates) ==
    LET wgs == toWGS([x |-> coordinates[1], y |-> coordinates[2]])
    IN <<wgs.longitude, wgs.latitude>>

\* The callback of the outer map: one feature.
reprojectFeature(feature) ==
    [feature EXCEPT !.geometry.coordinates =
        [j \in 1..Len(feature.geometry.coordinates) |->
            reprojectPair(feature.geometry.coordinates[j])]]

\* Lines 113-118: the new bounding box.
reprojectBbox(bbox) ==
    << toWGS([x |-> bbox[1], y |-> bbox[2]]).latitude,
       toWGS([x |-> bbox[1], y |-> bbox[2]]).longitude,
       toWGS([x |-> bbox[3], y |-> bbox[4]]).latitude,
       toWGS([x |-> bbox[3], y |-> bbox[4]]).longitude >>

\* Lines 102-118.  An element without a geometry makes the callback throw a
\* TypeError; the features before it were already reprojected in place.
Reproject ==
    /\ pc = "reproject"
    /\ LET fs == geojson.features
           bad == {i \in 1..Len(fs) : "geometry" \notin DOMAIN fs[i]}
           stop == IF bad = {} THEN Len(fs) + 1
                   ELSE CHOOSE i \in bad : \A j \in bad : i <= j
       IN /\ geojson' =
                [geojson EXCEPT
                    !.features = [i \in 1..Len(fs) |->
                        IF i < stop THEN reprojectFeature(fs[i]) ELSE fs[i]],
                    !.bbox = IF bad = {} THEN reprojectBbox(@) ELSE @]
          /\ pc' = IF bad # {} THEN "rejected"
                   ELSE IF Len(DESIGNATIONS) = 0 THEN "saveAll"
                   ELSE "saveDesignation"
    /\ UNCHANGED <<options, shapefile, idx, spinner, writes, disk>>

----------------------------------------------------------------------------
\* Writing the files

\* What JSON.stringify keeps of a feature: a property whose value is undefined
\* is left out.
jsonFeature(feature) ==
    IF "properties" \in DOMAIN feature
    THEN [feature EXCEPT !.properties =
            [k \in {k \in DOMAIN feature.properties :
                        feature.properties[k] # Undefined} |-> feature.properties[k]]]
    ELSE feature

\* JSON.stringify of an array of features; the text is modelled by the value
\* it denotes.
JSONstringify(features) ==
    [json |-> [i \in 1..Len(features) |-> jsonFeature(features[i])]]

\* JSON.parse
JSONparse(text) == text.json

\* JSON.stringify(collection, null, '\t')
stringifyCollection(collection) ==
    [json |-> [collection EXCEPT !.features = JSONstringify(@).json]]

\* Variant of designationFeatures: the callback tests that a designation is
\* set, not which.
designationFeatures_anySet(features, designation) ==
    LET copy == JSONparse(JSONstringify(features))
    IN Filter(copy, [i \in 1..Len(copy) |->
            /\ "properties" \in DOMAIN copy[i]
            /\ Truthy(Get(copy[i].properties, "designation"))])

\* Lines 123-125: the deep copy of the features, filtered to one designation.
designationFeatures(features, designation) ==
    LET copy == JSONparse(JSONstringify(features))
    IN Filter(copy, [i \in 1..Len(copy) |->
            /\ "properties" \in DOMAIN copy[i]
            /\ Get(copy[i].properties, "designation") = designation])

\* Line 127
outputFile(designation) == outputFileName \o <<"_">> \o Interpolate(designation)

\* Line 43: the file _saveGeoJson writes.
geojsonFile(name) == name \o <<".geojson">>

\* A file of the disk: its path and its content.
File(path, text, complete) == [file |-> path, complete |-> complete, text |-> text]

\* fs.writeFile resolves: the file holds the text, whatever it held before.
Written(files, path, text) ==
    {f \in files : f.file # path} \cup {File(path, text, TRUE)}

\* fs.writeFile rejects: the file was not touched, or it was created or
\* truncated and holds none or a part of the text.
FailedWrites(files, path) ==
    {files,
     {f \in files : f.file # path}
        \cup {File(path, stringifyCollection(EmptyCollection), FALSE)}}

\* The object written for one designation, lines 128-132.
designationCollection(designation) ==
    [type |-> geojson.type,
     features |-> designationFeatures(geojson.features, designation),
     bbox |-> geojson.bbox]

processing(designation) ==
    Call("text", <<"processing designation \"">> \o Interpolate(designation) \o <<"\"">>)

\* Lines 121-133: one iteration of the loop whose write succeeds.
SaveDesignationOk ==
    /\ pc = "saveDesignation"
    /\ LET designation == DESIGNATIONS[idx]
           path == geojsonFile(outputFile(designation))
           text == stringifyCollection(designationCollection(designation))
       IN /\ disk' = Written(disk, path, text)
          /\ writes' = Append(writes, File(path, text, TRUE))
          /\ spinner' = spinner \o
                << processing(designation),
                   Call("text", <<"successfully wrote geo-json file \"">>
                                    \o outputFile(designation) \o <<"\"">>) >>
    /\ idx' = idx + 1
    /\ pc' = IF idx + 1 > Len(DESIGNATIONS) THEN "saveAll" ELSE "saveDesignation"
    /\ UNCHANGED <<options, shapefile, geojson>>

\* Lines 121-127 and 134-136: one iteration whose write fails.  `outputFile`
\* is declared with const inside the try block and is not in scope in the
\* catch block, so building the message throws a ReferenceError before
\* spinner.fail is called, and the promise of shapeToGeojson rejects.
SaveDesignationFail ==
    /\ pc = "saveDesignation"
    /\ LET designation == DESIGNATIONS[idx]
       IN /\ disk' \in FailedWrites(disk, geojsonFile(outputFile(designation)))
          /\ spinner' = Append(spinner, processing(designation))
    /\ pc' = "saveRejected"
    /\ UNCHANGED <<options, shapefile, geojson, idx, writes>>

\* Lines 139-142: the combined file is written.
SaveAllOk ==
    /\ pc = "saveAll"
    /\ LET path == geojsonFile(outputFileName)
           text == stringifyCollection(geojson)
       IN /\ disk' = Written(disk, path, text)
          /\ writes' = Append(writes, File(path, text, TRUE))
    /\ spinner' = Append(spinner,
            Call("succeed", <<"shapeToGeojson: geo-data wrote to \"">>
                                \o outputFileName \o <<"\"">>))
    /\ pc' = "done"
    /\ UNCHANGED <<options, shapefile, geojson, idx>>

\* Lines 139-145: writing the combined file fails.
SaveAllFail ==
    /\ pc = "saveAll"
    /\ disk' \in FailedWrites(disk, geojsonFile(outputFileName))
    /\ spinner' = Append(spinner,
            Call("fail", <<"ERROR saving geo-json to file \"">>
                                \o outputFileName \o <<"\"">>))
    /\ pc' = "saveFailed"
    /\ UNCHANGED <<options, shapefile, geojson, idx, writes>>

----------------------------------------------------------------------------
Next ==
    \/ Start
    \/ ReadOk
    \/ ReadFail
    \/ Classify
    \/ Reproject
    \/ SaveDesignationOk
    \/ SaveDesignationFail
    \/ SaveAllOk
    \/ SaveAllFail

Spec == Init /\ [][Next]_vars

----------------------------------------------------------------------------
\* Properties

Loaded == pc \notin {"start", "reading", "readFailed"}
Classified == Loaded /\ pc # "classify"
Reprojected == Classified /\ pc # "reproject"

rawFeatures == shapefile.features
combinedFile == geojsonFile(outputFileName)
HasDesignation(feature) == "designation" \in DOMAIN feature.properties
ObjectIds(features) == [i \in 1..Len(features) |-> features[i].properties["OBJECTID"].n]
\* The template text mentions the string (a sequence of parts).
Mentions(text, str) ==
    \E a \in 1..Len(text) : SubSeq(text, a, a + Len(str) - 1) = str
NoDefinitions ==
    \/ "typesDefinitions" \notin DOMAIN options
    \/ options.typesDefinitions = <<>>
definitions == IF NoDefinitions THEN <<>> ELSE options.typesDefinitions
Labels == {definitions[i].designation : i \in 1..Len(definitions)}
FirstAt(label) ==
    CHOOSE i \in 1..Len(definitions) :
        /\ definitions[i].designation = label
        /\ \A j \in 1..(i - 1) : definitions[j].designation # label

\* C10: after a successful load every feature has LAGE and Typ; a field that
\* was absent, null, "" or 0 in the input is "UNKNOWN", any other field keeps
\* its input value.
LoaderDefaults ==
    Loaded =>
        /\ Len(geojson.features) = Len(rawFeatures)
        /\ \A i \in 1..Len(rawFeatures) : \A k \in {"LAGE", "Typ"} :
              LET raw == rawFeatures[i].properties
                  now == geojson.features[i].properties
              IN /\ k \in DOMAIN now
                 /\ IF k \notin DOMAIN raw \/ raw[k] \in {Null, Str(""), Num(0)}
                    THEN now[k] = Str("UNKNOWN")
                    ELSE now[k] = raw[k]

LoaderDefaultsWitness ==
    /\ pc = "classify"
    /\ \E i \in 1..Len(rawFeatures) :
          /\ Get(rawFeatures[i].properties, "LAGE") = Num(0)
          /\ Get(rawFeatures[i].properties, "Typ") = Num(7)
          /\ geojson.features[i].properties["LAGE"] = Str("UNKNOWN")
          /\ geojson.features[i].properties["Typ"] = Num(7)

\* C2: with a non-empty definition list, after the classification pass a
\* feature whose Typ is a configured type code carries the designation
\* configured for that code (the first entry with the code), and a feature
\* whose Typ is no configured code carries no designation.
ClassificationResult ==
    (Classified /\ ~NoDefinitions) =>
        \A i \in 1..Len(geojson.features) :
            LET f == geojson.features[i]
                matching == {j \in 1..Len(definitions) :
                                definitions[j].type = f.properties["Typ"]}
            IN IF matching = {} THEN ~HasDesignation(f)
               ELSE /\ HasDesignation(f)
                    /\ \A j \in matching :
                          (\A m \in matching : j <= m) =>
                              f.properties["designation"] = definitions[j].designation

ClassificationResultWitness ==
    /\ pc = "reproject"
    /\ Len(definitions) = 2
    /\ definitions[1].type = definitions[2].type
    /\ definitions[1].designation # definitions[2].designation
    /\ \E i, j \in 1..Len(geojson.features) :
          /\ HasDesignation(geojson.features[i])
          /\ geojson.features[j].properties["Typ"] = Str("C")
          /\ ~HasDesignation(geojson.features[j])

\* C9: the classification and reprojection passes neither drop, add nor
\* reorder features, and the combined file of a successful run holds all of
\* them, classified or not.
NoFeatureDropped ==
    /\ Loaded =>
          /\ ObjectIds(geojson.features) = [i \in 1..Len(rawFeatures) |-> i]
          /\ \A i \in 1..Len(rawFeatures) :
                /\ geojson.features[i].properties["LAGE"]
                        = Or(Get(rawFeatures[i].properties, "LAGE"), Str("UNKNOWN"))
                /\ geojson.features[i].properties["Typ"]
                        = Or(Get(rawFeatures[i].properties, "Typ"), Str("UNKNOWN"))
    /\ pc = "done" =>
          /\ writes[Len(writes)].file = combinedFile
          /\ ObjectIds(writes[Len(writes)].text.json.features)
                = [i \in 1..Len(rawFeatures) |-> i]
          /\ writes[Len(writes)].text.json.features = geojson.features

NoFeatureDroppedWitness ==
    /\ pc = "done"
    /\ Len(rawFeatures) >= 2
    /\ \E i, j \in 1..Len(geojson.features) :
          /\ HasDesignation(geojson.features[i])
          /\ ~HasDesignation(geojson.features[j])

\* The features of the k-th completed write.
Written_features(k) == writes[k].text.json.features
InWrite(k, feature) ==
    \E j \in 1..Len(Written_features(k)) : Written_features(k)[j] = feature

\* C1: after a run in which every write succeeds, the per-designation files
\* together hold exactly the features of the combined file that have a
\* designation, each of them in exactly one file and once.
PartitionComplete ==
    pc = "done" =>
        LET last == Len(writes)
            parts == 1..(last - 1)
        IN /\ writes[last].file = combinedFile
           /\ \A k \in parts : writes[k].file # combinedFile
           /\ \A i \in 1..Len(Written_features(last)) :
                 LET f == Written_features(last)[i]
                 IN IF HasDesignation(f)
                    THEN Cardinality({k \in parts : InWrite(k, f)}) = 1
                    ELSE \A k \in parts : ~InWrite(k, f)
           /\ \A k \in parts :
                 /\ \A j \in 1..Len(Written_features(k)) :
                       InWrite(last, Written_features(k)[j])
                 /\ \A j, m \in 1..Len(Written_features(k)) :
                       Written_features(k)[j] = Written_features(k)[m] => j = m

PartitionCompleteWitness ==
    /\ pc = "done"
    /\ Len(writes) = 3
    /\ Len(Written_features(1)) > 0
    /\ \E i \in 1..Len(geojson.features) : ~HasDesignation(geojson.features[i])

\* C3: the combined file is written after one file per distinct designation,
\* these in the order the designations first occur in the configuration; a
\* run whose writes all succeed writes exactly these N+1 files, and the
\* combined file holds the whole collection.
OutputSetAndOrder ==
    LET N == Cardinality(Labels)
    IN /\ Len(writes) <= N + 1
       /\ \A k \in 1..Len(writes) :
             IF k <= N
             THEN \E label \in Labels :
                    /\ writes[k].file
                          = outputFileName \o <<"_", label.s, ".geojson">>
                    /\ Cardinality({l \in Labels : FirstAt(l) < FirstAt(label)}) = k - 1
             ELSE /\ writes[k].file = outputFileName \o <<".geojson">>
                  /\ writes[k].text.json.type = "FeatureCollection"
                  /\ Len(writes[k].text.json.features) = Len(rawFeatures)
                  /\ writes[k].text.json = geojson
       /\ pc = "done" =>
             /\ Len(writes) = N + 1
             /\ disk = {writes[k] : k \in 1..Len(writes)}
             /\ Cardinality(disk) = N + 1

OutputSetAndOrderWitness ==
    /\ pc = "done"
    /\ Len(definitions) = 2
    /\ definitions[1].designation = Str("Y")
    /\ definitions[2].designation = Str("X")
    /\ Len(rawFeatures) > 0

\* C5: once the failure to read the shapefile pair is reported the run has
\* ended: nothing was classified or reprojected, no file is written and no
\* step follows.
ReadFailureReported ==
    \E i \in 1..Len(spinner) :
        /\ spinner[i].method = "fail"
        /\ spinner[i].text[1] = "ERROR reading geo-json: "
LoadFailureEndsRun ==
    /\ pc = "readFailed" => ReadFailureReported
    /\ ReadFailureReported =>
          /\ spinner[Len(spinner)].method = "fail"
          /\ geojson = EmptyCollection
          /\ writes = <<>>
          /\ disk = {}
          /\ ~ENABLED Next

LoadFailureEndsRunWitness ==
    /\ pc = "readFailed"
    /\ Len(rawFeatures) > 0
    /\ ~NoDefinitions

\* C7: without type definitions (none supplied, or an empty list) the
\* classification pass changes no feature and reports nothing, and the only
\* file ever written is the combined file.
ZeroDefinitions ==
    NoDefinitions =>
        /\ Classified /\ ~Reprojected => geojson = _getGeoJson(shapefile)
        /\ Loaded => \A i \in 1..Len(geojson.features) :
                        DOMAIN geojson.features[i].properties = {"LAGE", "Typ", "OBJECTID"}
        /\ \A i \in 1..Len(spinner) :
                spinner[i].method \in {"start", "succeed"}
                \/ (spinner[i].method = "text" /\ i = 2)
                \/ (spinner[i].method = "fail" /\ i = Len(spinner) /\ pc \in {"readFailed", "saveFailed"})
        /\ \A k \in 1..Len(writes) : writes[k].file = combinedFile
        /\ \A f \in disk : f.file = combinedFile
        /\ pc = "done" => Len(writes) = 1 /\ Cardinality(disk) = 1

ZeroDefinitionsWitness ==
    /\ pc = "done"
    /\ "typesDefinitions" \notin DOMAIN options
    /\ Len(geojson.features) = 2
    /\ geojson.features[1].properties["Typ"] = Str("A")
    /\ geojson.features[2].properties["Typ"] = Str("UNKNOWN")

\* C4: when a write fails, no later file is written, the spinner receives a
\* failure report naming the output path that failed, and the files written
\* before are left as written.
WriteFailureReported ==
    pc \in {"saveRejected", "saveFailed"} =>
        LET failed == IF pc = "saveFailed" THEN outputFileName
                      ELSE outputFile(DESIGNATIONS[idx])
        IN /\ ~ENABLED Next
           /\ \A k \in 1..Len(writes) : writes[k] \in disk
           /\ spinner[Len(spinner)].method = "fail"
           /\ Mentions(spinner[Len(spinner)].text, failed)

\* The part of C4 the code does meet: a failed write ends the run and leaves
\* the files written before it as they were written.
WriteFailureKeepsFiles ==
    pc \in {"saveRejected", "saveFailed"} =>
        /\ ~ENABLED Next
        /\ \A k \in 1..Len(writes) : writes[k] \in disk
        /\ pc = "saveFailed" =>
              /\ spinner[Len(spinner)].method = "fail"
              /\ Mentions(spinner[Len(spinner)].text, outputFileName)

\* C6: with a non-empty definition list, a feature whose Typ was unset in the
\* input gets an error-level diagnostic naming its LAGE, stays unclassified,
\* and the run goes on to write.
MissingTypeDiagnostic ==
    (Classified /\ ~NoDefinitions) =>
        /\ pc # "rejected"
        /\ \A i \in 1..Len(rawFeatures) :
              ~Truthy(Get(rawFeatures[i].properties, "Typ")) =>
                  /\ ~HasDesignation(geojson.features[i])
                  /\ \E c \in 1..Len(spinner) :
                        /\ spinner[c].method \in {"error", "fail"}
                        /\ Mentions(spinner[c].text,
                                Interpolate(geojson.features[i].properties["LAGE"]))

\* The part of C6 the code does meet: such a feature does not stop the run;
\* it carries the type "UNKNOWN", is classified only if that is a configured
\* code, and is otherwise reported by a warning that names the type.
MissingTypeIsNotFatal ==
    (Classified /\ ~NoDefinitions) =>
        /\ pc # "rejected"
        /\ \A i \in 1..Len(rawFeatures) :
              ~Truthy(Get(rawFeatures[i].properties, "Typ")) =>
                  /\ geojson.features[i].properties["Typ"] = Str("UNKNOWN")
                  /\ IF \E j \in 1..Len(definitions) :
                            definitions[j].type = Str("UNKNOWN")
                     THEN HasDesignation(geojson.features[i])
                     ELSE /\ ~HasDesignation(geojson.features[i])
                          /\ \E c \in 1..Len(spinner) :
                                /\ spinner[c].method = "warn"
                                /\ Mentions(spinner[c].text, <<"UNKNOWN">>)

\* C8: after the reprojection pass every coordinate pair and the bounding box
\* hold degrees in longitude, latitude order, each computed from the
\* projected pair at the same position.
LonLat(pair, x, y) ==
    /\ pair[1] = [unit |-> "deg", axis |-> "longitude", of |-> <<x.of[1], y.of[1]>>]
    /\ pair[2] = [unit |-> "deg", axis |-> "latitude", of |-> <<x.of[1], y.of[1]>>]
LongitudeLatitudeOrder ==
    Reprojected =>
        /\ \A i \in 1..Len(rawFeatures) :
              LET was == rawFeatures[i].geometry.coordinates
                  now == geojson.features[i].geometry.coordinates
              IN /\ Len(now) = Len(was)
                 /\ \A j \in 1..Len(was) : LonLat(now[j], was[j][1], was[j][2])
        /\ LonLat(<<geojson.bbox[1], geojson.bbox[2]>>, shapefile.bbox[1], shapefile.bbox[2])
        /\ LonLat(<<geojson.bbox[3], geojson.bbox[4]>>, shapefile.bbox[3], shapefile.bbox[4])

\* The part of C8 the code does meet: the coordinate pairs of the features.
FeatureCoordinatesLonLat ==
    Reprojected =>
        \A i \in 1..Len(rawFeatures) :
            LET was == rawFeatures[i].geometry.coordinates
                now == geojson.features[i].geometry.coordinates
            IN /\ Len(now) = Len(was)
               /\ \A j \in 1..Len(was) : LonLat(now[j], was[j][1], was[j][2])

====
